---- MODULE Spec2Model ----
(***************************************************************************)
(* Model of 5_aggregator/aggregator.py: the batch driver (argument         *)
(* splitting, args_list, multiprocessing.Pool.map) and                     *)
(* process_scenario_period (file resolution, reference read, float32       *)
(* sum/count fold over the input rasters, masked average, rounding,        *)
(* reference nodata mask, output write).                                   *)
(*                                                                         *)
(* Strings that are concatenated into paths are sequences of one-character *)
(* strings.  A float is a tagged pair: <<"num", n>> for the integer-valued *)
(* float n, <<"nan", 0>> for NaN; None is <<"none", 0>>.  Input pixel      *)
(* values are integers; float32 rounding of sums and quotients is          *)
(* modelled explicitly.                                                    *)
(***************************************************************************)
EXTENDS Integers, Sequences, FiniteSets, TLC

\* ---------------------------------------------------------------- bounds
MaxFiles == 3
MaxShapeFiles == 2
MaxDim == 2
MaxScenarios == 2
MaxPeriods == 3
MaxCpus == 2

\* float32 significand width (dtype=np.float32)
F32Bits == 24

\* ------------------------------------------------------- tagged values
Num(n) == <<"num", n>>
NaN == <<"nan", 0>>
None == <<"none", 0>>

\* numpy's elementwise ==: NaN equals nothing, a number never equals None
NpEq(x, y) == x[1] = "num" /\ y[1] = "num" /\ x[2] = y[2]

\* ------------------------------------------------------------ integers
Abs(x) == IF x < 0 THEN -x ELSE x

Min(a, b) == IF a < b THEN a ELSE b

\* round-half-to-even of n/d (d > 0), as np.round and IEEE-754 do
RoundHalfUp(n, d) ==
  LET q == n \div d
      r == n % d
  IN  IF 2 * r < d THEN q ELSE q + 1

RoundHalfEven(n, d) ==
  LET q == n \div d
      r == n % d
  IN  IF 2 * r < d THEN q
      ELSE IF 2 * r > d THEN q + 1
      ELSE IF q % 2 = 0 THEN q ELSE q + 1

RECURSIVE ExpUp(_, _, _)
\* the largest e >= 0 with b * 2^e <= a (a >= b > 0)
ExpUp(a, b, e) == IF b * 2 <= a THEN ExpUp(a, b * 2, e + 1) ELSE e

RECURSIVE ExpDown(_, _, _)
\* the smallest j > 0 with a * 2^j >= b (0 < a < b)
ExpDown(a, b, j) == IF a * 2 >= b THEN j + 1 ELSE ExpDown(a * 2, b, j + 1)

\* floor(log2(a/b)) for a, b > 0
FloorLog2(a, b) == IF a >= b THEN ExpUp(a, b, 0) ELSE -ExpDown(a, b, 0)

\* the float32 nearest to the integer x (ties to even)
F32Int(x) ==
  IF x = 0 THEN 0
  ELSE LET e == FloorLog2(Abs(x), 1)
       IN  IF e < F32Bits THEN x
           ELSE LET ulp == 2 ^ (e - (F32Bits - 1))
                IN  RoundHalfEven(x, ulp) * ulp

\* the float32 nearest to s/k (k > 0), as the rational <<numerator, 2^j>>
F32Div(s, k) ==
  IF s = 0 THEN <<0, 1>>
  ELSE LET e == FloorLog2(Abs(s), k)
       IN  IF e >= F32Bits - 1
           THEN LET ulp == 2 ^ (e - (F32Bits - 1))
                IN  <<RoundHalfEven(s, k * ulp) * ulp, 1>>
           ELSE LET sc == 2 ^ ((F32Bits - 1) - e)
                IN  <<RoundHalfEven(s * sc, k), sc>>

\* --------------------------------------------------------------- grids
\* a 2-D array: shape <<height, width>> and its elements in row-major order
Size(shape) == shape[1] * shape[2]

\* np.zeros_like(ref_raster, dtype=np.float32)
ZerosLike(g) == [shape |-> g.shape,
   a |-> [k \in 1..Size(g.shape) |->
           0]]

EmptyGrid == [shape |-> <<0, 0>>, a |-> <<>>]

\* numpy broadcasting of an operand of shape src into an in-place result of
\* shape dst: every dimension is equal, or the operand's is 1
Broadcastable(src, dst) ==
  /\ src[1] = dst[1] \/ src[1] = 1
  /\ src[2] = dst[2] \/ src[2] = 1

BroadcastExact(src, dst) == src = dst

\* the operand's element that numpy pairs with element k of the result
BIdx(src, dst, k) ==
  LET r == (k - 1) \div dst[2]
      c == (k - 1) % dst[2]
      rr == IF src[1] = 1 THEN 0 ELSE r
      cc == IF src[2] = 1 THEN 0 ELSE c
  IN  rr * src[2] + cc + 1

\* raster.filled(0): the data with every masked element replaced by 0
FilledRaw(raster) == [shape |-> raster.shape, a |-> raster.data]

Filled(raster) ==
  [shape |-> raster.shape,
   a |-> [k \in 1..Size(raster.shape) |->
           IF raster.mask[k] THEN 0 ELSE raster.data[k]]]

\* ~raster.mask, as the 0/1 it adds to a float array
NotMask(raster) ==
  [shape |-> raster.shape,
   a |-> [k \in 1..Size(raster.shape) |->
           IF raster.mask[k] THEN 0 ELSE 1]]

\* acc += x on a float32 array acc (x broadcastable to acc)
IAddOverwrite(acc, x) ==
  [shape |-> acc.shape,
   a |-> [k \in 1..Size(acc.shape) |->
           F32Int(x.a[BIdx(x.shape, acc.shape, k)])]]

IAdd(acc, x) ==
  [shape |-> acc.shape,
   a |-> [k \in 1..Size(acc.shape) |->
           F32Int(acc.a[k] + x.a[BIdx(x.shape, acc.shape, k)])]]

\* np.divide(sum, count, out=zeros, where=(count != 0)); NaN is <<0, 0>>
NpDivideNoWhere(s, c) ==
  [shape |-> s.shape,
   a |-> [k \in 1..Size(s.shape) |->
           IF c.a[k] # 0 THEN F32Div(s.a[k], c.a[k]) ELSE <<0, 0>>]]

NpDivide(s, c) ==
  [shape |-> s.shape,
   a |-> [k \in 1..Size(s.shape) |->
           IF c.a[k] # 0 THEN F32Div(s.a[k], c.a[k]) ELSE <<0, 1>>]]

\* np.round(average).astype(np.float32)
NpRound(avg) ==
  [shape |-> avg.shape,
   a |-> [k \in 1..Size(avg.shape) |->
           IF avg.a[k][2] = 0 THEN NaN
                  ELSE Num(RoundHalfEven(avg.a[k][1], avg.a[k][2]))]]

\* nodata_mask = (ref_raster == ref_nodata)
NodataMask(ref_raster, ref_nodata) ==
  [shape |-> ref_raster.shape,
   a |-> [k \in 1..Size(ref_raster.shape) |->
           NpEq(ref_raster.a[k], ref_nodata)]]

\* average_raster_rounded[nodata_mask] = np.nan
SetNaNWhere(arr, m) ==
  [shape |-> arr.shape,
   a |-> [k \in 1..Size(arr.shape) |->
           IF m.a[k] THEN NaN ELSE arr.a[k]]]

\* lines 40-47: the output grid from the accumulators and the reference
Average(sum_raster, count_raster, ref_raster, ref_nodata) ==
  SetNaNWhere(NpRound(NpDivide(sum_raster, count_raster)),
              NodataMask(ref_raster, ref_nodata))

\* ------------------------------------------------------- names and paths
ScenarioNames == {<<"a">>, <<"a", "_">>}

PeriodNames == {<<"a">>, <<"_", "a">>}

\* sys.argv[7] and sys.argv[3]
NCP == <<"n">>

OutDir == <<"o">>

\* lines 50-51: os.path.join(output_path, f"{NCP}_{SCENARIO}_{PERIOD}.tif")
OutputPath(SCENARIO, PERIOD) ==
  OutDir \o <<"/">> \o NCP \o <<"_">> \o SCENARIO \o <<"_">> \o PERIOD
         \o <<".", "t", "i", "f">>

SeqsUpTo(S, n) == UNION {[1..m -> S] : m \in 0..n}

\* ---------------------------------------------------------- file system
Species == {1, 2}

Dirs == ScenarioNames \X PeriodNames \X Species

\* an input raster file: whether rasterio can open it, and band 1 as
\* read(1, masked=True) returns it
InFile(shape, data, mask) ==
  [readable |-> TRUE, shape |-> shape, data |-> data, mask |-> mask]

BrokenInFile ==
  [readable |-> FALSE, shape |-> <<1, 1>>, data |-> <<0>>, mask |-> <<FALSE>>]

\* the reference raster file: band 1 as read(1) returns it, and src.nodata
RefFile(shape, data, nodata) ==
  [readable |-> TRUE, shape |-> shape, data |-> data, nodata |-> nodata]

BrokenRefFile ==
  [readable |-> FALSE, shape |-> <<1, 1>>, data |-> <<Num(1)>>, nodata |-> None]

VARIABLES
  scenarios,      \* sys.argv[5].split()
  periods,        \* sys.argv[6].split()
  cpus,           \* cpu_count()
  species_list,   \* the lines of the species list file
  inputFS,        \* directory <<scenario, period, species>> -> the files glob finds
  refFile,        \* the file at reference_raster_path
  locked,         \* output paths that cannot be opened for writing
  driverPc,       \* the main module: "start", "map", "done", "raised", "crashed"
  args_list,
  num_processes,
  chunks,         \* pool.map's task batches, each a sequence of task indices
  nextChunk,      \* the next batch of the pool's task queue
  chunkDone,      \* per batch: "none", "ok" or "error"
  worker,         \* per pool process: the batch it runs and its position in it
  task,           \* per element of args_list: the locals of process_scenario_period
  outFiles        \* output path -> the grid last written to it

vars == <<scenarios, periods, cpus, species_list, inputFS, refFile, locked,
          driverPc, args_list, num_processes, chunks, nextChunk, chunkDone,
          worker, task, outFiles>>

env == <<scenarios, periods, cpus, species_list, inputFS, refFile, locked>>

RECURSIVE GlobAll(_, _, _)
\* line 15: the files of every species of the list, in list order
GlobAll(SCENARIO, PERIOD, sl) ==
  IF sl = <<>> THEN <<>>
  ELSE inputFS[<<SCENARIO, PERIOD, Head(sl)>>]
         \o GlobAll(SCENARIO, PERIOD, Tail(sl))

\* line 17: if not tiff_files
NeverSkip(tiff_files) == FALSE

NoFilesFound(tiff_files) == tiff_files = <<>>

\* rasterio.open(path) raises for a file it cannot read
OpenNeverFails(f) == FALSE

OpenFails(f) == ~f.readable

\* ------------------------------------------------------------ the driver
RECURSIVE Product(_, _)
\* line 82: for SCENARIO in scenarios for PERIOD in periods
Product(ss, ps) ==
  IF ss = <<>> THEN <<>>
  ELSE [i \in 1..Len(ps) |-> <<Head(ss), ps[i]>>] \o Product(Tail(ss), ps)

\* Pool.map's default chunksize: divmod(len(iterable), len(pool) * 4), rounded up
Chunksize(n, pool) ==
  LET q == n \div (pool * 4)
      r == n % (pool * 4)
  IN  IF r # 0 THEN q + 1 ELSE q

\* the task batches of n tasks cut into runs of cs
Batches(n, cs) ==
  [c \in 1..((n + cs - 1) \div cs) |->
     [j \in 1..(Min(c * cs, n) - (c - 1) * cs) |-> (c - 1) * cs + j]]

NewTask ==
  [pc |-> "pending", tiff_files |-> <<>>, ref_raster |-> EmptyGrid,
   ref_nodata |-> None, sum_raster |-> EmptyGrid, count_raster |-> EmptyGrid,
   n |-> 0, average_raster_rounded |-> EmptyGrid, err |-> "none"]

Idle == [chunk |-> 0, pos |-> 0]

\* lines 82-89 with no task: Pool(processes=0) raises ValueError
PoolError ==
  /\ driverPc = "start"
  /\ Min(cpus, Len(Product(scenarios, periods))) < 1
  /\ args_list' = Product(scenarios, periods)
  /\ num_processes' = Min(cpus, Len(args_list'))
  /\ driverPc' = "crashed"
  /\ UNCHANGED <<env, chunks, nextChunk, chunkDone, worker, task, outFiles>>

\* lines 82-90: args_list, the pool and the batches pool.map queues
PoolMap ==
  /\ driverPc = "start"
  /\ Min(cpus, Len(Product(scenarios, periods))) >= 1
  /\ args_list' = Product(scenarios, periods)
  /\ num_processes' = Min(cpus, Len(args_list'))
  /\ chunks' = Batches(Len(args_list'),
                       Chunksize(Len(args_list'), num_processes'))
  /\ nextChunk' = 1
  /\ chunkDone' = [c \in 1..Len(chunks') |-> "none"]
  /\ worker' = [w \in 1..num_processes' |-> Idle]
  /\ task' = [t \in 1..Len(args_list') |-> NewTask]
  /\ driverPc' = "map"
  /\ UNCHANGED <<env, outFiles>>

\* pool.map returns once every batch has reported; it re-raises a task's exception
MapReturn ==
  /\ driverPc = "map"
  /\ \A c \in 1..Len(chunks) : chunkDone[c] # "none"
  /\ driverPc' = IF \E c \in 1..Len(chunks) : chunkDone[c] = "error"
                 THEN "raised" ELSE "done"
  /\ UNCHANGED <<env, args_list, num_processes, chunks, nextChunk, chunkDone,
                 worker, task, outFiles>>

\* ----------------------------------------------------------- the workers
\* an idle pool process takes the next batch from the task queue
TakeChunk(w) ==
  /\ driverPc = "map"
  /\ worker[w].chunk = 0
  /\ nextChunk <= Len(chunks)
  /\ worker' = [worker EXCEPT ![w] = [chunk |-> nextChunk, pos |-> 1]]
  /\ nextChunk' = nextChunk + 1
  /\ UNCHANGED <<env, driverPc, args_list, num_processes, chunks, chunkDone,
                 task, outFiles>>

Busy(w) == driverPc = "map" /\ worker[w].chunk # 0

Current(w) == chunks[worker[w].chunk][worker[w].pos]

\* the call returns: mapstar goes on to the batch's next task
Returns(w, rec) ==
  LET c == worker[w].chunk
      last == worker[w].pos = Len(chunks[c])
  IN  /\ task' = [task EXCEPT ![Current(w)] = rec]
      /\ worker' = [worker EXCEPT ![w] =
                      IF last THEN Idle ELSE [chunk |-> c, pos |-> @.pos + 1]]
      /\ chunkDone' = IF last THEN [chunkDone EXCEPT ![c] = "ok"] ELSE chunkDone

\* the call raises: mapstar's list(map(...)) stops, the batch reports the error
Raises(w, rec) ==
  LET c == worker[w].chunk
      rest == {chunks[c][j] : j \in (worker[w].pos + 1)..Len(chunks[c])}
  IN  /\ task' = [t \in DOMAIN task |->
                    IF t = Current(w) THEN rec
                    ELSE IF t \in rest THEN [task[t] EXCEPT !.pc = "notrun"]
                    ELSE task[t]]
      /\ worker' = [worker EXCEPT ![w] = Idle]
      /\ chunkDone' = [chunkDone EXCEPT ![c] = "error"]

\* ------------------------------------------- process_scenario_period
\* the file system after path p is created or overwritten with grid g
Put(files, p, g) ==
  [q \in DOMAIN files \cup {p} |-> IF q = p THEN g ELSE files[q]]

\* lines 11-19: read the species list, glob, skip when nothing is found
Resolve(w) ==
  /\ Busy(w)
  /\ task[Current(w)].pc = "pending"
  /\ LET a == args_list[Current(w)]
         files == GlobAll(a[1], a[2], species_list)
     IN  IF NoFilesFound(files)
         THEN Returns(w, [task[Current(w)] EXCEPT !.pc = "skipped"])
         ELSE /\ task' = [task EXCEPT ![Current(w)] =
                            [@ EXCEPT !.pc = "read_ref", !.tiff_files = files]]
              /\ UNCHANGED <<worker, chunkDone>>
  /\ UNCHANGED <<env, driverPc, args_list, num_processes, chunks, nextChunk,
                 outFiles>>

\* lines 22-29: read the reference, allocate sum_raster and count_raster
ReadRef(w) ==
  /\ Busy(w)
  /\ task[Current(w)].pc = "read_ref"
  /\ IF OpenFails(refFile)
     THEN Raises(w, [task[Current(w)] EXCEPT !.pc = "failed", !.err = "ref"])
     ELSE LET g == [shape |-> refFile.shape, a |-> refFile.data]
          IN  /\ task' = [task EXCEPT ![Current(w)] =
                            [@ EXCEPT !.pc = "fold", !.ref_raster = g,
                                      !.ref_nodata = refFile.nodata,
                                      !.sum_raster = ZerosLike(g),
                                      !.count_raster = ZerosLike(g)]]
              /\ UNCHANGED <<worker, chunkDone>>
  /\ UNCHANGED <<env, driverPc, args_list, num_processes, chunks, nextChunk,
                 outFiles>>

\* lines 32-37: one iteration of the loop over tiff_files
ReadFile(w) ==
  /\ Busy(w)
  /\ task[Current(w)].pc = "fold"
  /\ task[Current(w)].n < Len(task[Current(w)].tiff_files)
  /\ LET me == task[Current(w)]
         raster == me.tiff_files[me.n + 1]
     IN  IF OpenFails(raster)
         THEN Raises(w, [me EXCEPT !.pc = "failed", !.err = "input"])
         ELSE IF ~Broadcastable(raster.shape, me.sum_raster.shape)
         THEN Raises(w, [me EXCEPT !.pc = "failed", !.err = "shape"])
         ELSE /\ task' = [task EXCEPT ![Current(w)] =
                            [@ EXCEPT !.n = @ + 1,
                                      !.sum_raster = IAdd(@, Filled(raster)),
                                      !.count_raster = IAdd(@, NotMask(raster))]]
              /\ UNCHANGED <<worker, chunkDone>>
  /\ UNCHANGED <<env, driverPc, args_list, num_processes, chunks, nextChunk,
                 outFiles>>

\* lines 40-67: average, round, mask, open (create or truncate) the output file
OpenOutput(w) ==
  /\ Busy(w)
  /\ task[Current(w)].pc = "fold"
  /\ task[Current(w)].n = Len(task[Current(w)].tiff_files)
  /\ LET me == task[Current(w)]
         a == args_list[Current(w)]
         avg == Average(me.sum_raster, me.count_raster,
                        me.ref_raster, me.ref_nodata)
     IN  IF OutputPath(a[1], a[2]) \in locked
         THEN /\ Raises(w, [me EXCEPT !.pc = "failed", !.err = "output",
                                      !.average_raster_rounded = avg])
              /\ UNCHANGED outFiles
         ELSE /\ task' = [task EXCEPT ![Current(w)] =
                            [@ EXCEPT !.pc = "writing",
                                      !.average_raster_rounded = avg]]
              /\ outFiles' = Put(outFiles, OutputPath(a[1], a[2]), EmptyGrid)
              /\ UNCHANGED <<worker, chunkDone>>
  /\ UNCHANGED <<env, driverPc, args_list, num_processes, chunks, nextChunk>>

\* lines 68-70: dst.write, close, "Output saved"
WriteOutput(w) ==
  /\ Busy(w)
  /\ task[Current(w)].pc = "writing"
  /\ LET me == task[Current(w)]
         a == args_list[Current(w)]
     IN  /\ outFiles' = Put(outFiles, OutputPath(a[1], a[2]),
                             me.average_raster_rounded)
         /\ Returns(w, [me EXCEPT !.pc = "written"])
  /\ UNCHANGED <<env, driverPc, args_list, num_processes, chunks, nextChunk>>

Next ==
  \/ PoolError
  \/ PoolMap
  \/ MapReturn
  \/ \E w \in DOMAIN worker : TakeChunk(w)
  \/ \E w \in DOMAIN worker : Resolve(w)
  \/ \E w \in DOMAIN worker : ReadRef(w)
  \/ \E w \in DOMAIN worker : ReadFile(w)
  \/ \E w \in DOMAIN worker : OpenOutput(w)
  \/ \E w \in DOMAIN worker : WriteOutput(w)

\* ------------------------------------------------------ initial states
A == <<"a">>

\* pixel values of the input rasters: small ones, and one past 2^24
Values == {0, 1, 2, 16777218}

\* raw values stored under masked pixels
MaskedRaw == {0, 2}

Shapes == (1..MaxDim) \X (1..MaxDim)

\* one-pixel rasters with every valid value and every masked raw value
PixelFiles ==
  {InFile(<<1, 1>>, <<v>>, <<FALSE>>) : v \in Values}
    \cup {InFile(<<1, 1>>, <<v>>, <<TRUE>>) : v \in MaskedRaw}

\* one-pixel references: valid or nodata, under a numeric sentinel, a NaN
\* sentinel, or no sentinel
PixelRefs ==
  {RefFile(<<1, 1>>, <<Num(1)>>, Num(0)), RefFile(<<1, 1>>, <<Num(0)>>, Num(0)),
   RefFile(<<1, 1>>, <<Num(1)>>, NaN), RefFile(<<1, 1>>, <<NaN>>, NaN),
   RefFile(<<1, 1>>, <<Num(1)>>, None)}

\* rasters of every shape: element k holds k, the last of several is masked
ShapeFile(shape) ==
  InFile(shape, [k \in 1..Size(shape) |-> k],
         [k \in 1..Size(shape) |-> k > 1 /\ k = Size(shape)])

ShapeFiles == {ShapeFile(sh) : sh \in Shapes}

\* references of every shape: all valid but the first pixel (sentinel 0)
ShapeRef(shape) ==
  RefFile(shape, [k \in 1..Size(shape) |-> IF k = 1 THEN Num(0) ELSE Num(1)],
          Num(0))

\* the one directory <<A, A>> holding files: the first under species 1, the
\* others under species 2
OneDir(files) ==
  [d \in Dirs |->
     IF d = <<A, A, 1>> THEN SubSeq(files, 1, Min(1, Len(files)))
     ELSE IF d = <<A, A, 2>> THEN SubSeq(files, 2, Len(files))
     ELSE <<>>]

OkFile == InFile(<<1, 1>>, <<1>>, <<FALSE>>)

WideFile == InFile(<<1, 2>>, <<1, 2>>, <<FALSE, FALSE>>)

OkRef == RefFile(<<1, 1>>, <<Num(1)>>, Num(0))

\* every directory holds one readable file of species 1, except directory
\* bad, which holds what
AllDirs(bad, what) ==
  [d \in Dirs |->
     IF d[3] # 1 THEN <<>>
     ELSE IF <<d[1], d[2]>> = bad THEN what
     ELSE <<OkFile>>]

NoPair == <<<<>>, <<>>>>

Env(sl, fs, rf, lk) == [sl |-> sl, fs |-> fs, rf |-> rf, lk |-> lk]

\* the file systems of a batch: sound; an empty species list; one directory
\* with no file, an unreadable file or a file of another shape; one output
\* path that cannot be written; an unreadable reference
BatchEnvs ==
  {Env(<<1>>, AllDirs(NoPair, <<>>), OkRef, {}),
   Env(<<>>, AllDirs(NoPair, <<>>), OkRef, {})}
  \cup {Env(<<1>>, AllDirs(d, what), OkRef, {}) :
          d \in ScenarioNames \X PeriodNames,
          what \in {<<>>, <<BrokenInFile>>, <<WideFile>>}}
  \cup {Env(<<1>>, AllDirs(NoPair, <<>>), OkRef, {OutputPath(d[1], d[2])}) :
          d \in ScenarioNames \X PeriodNames}
  \cup {Env(<<1>>, AllDirs(d, <<>>), BrokenRefFile, {}) :
          d \in (ScenarioNames \X PeriodNames) \cup {NoPair}}

InitDriver ==
  /\ driverPc = "start"
  /\ args_list = <<>>
  /\ num_processes = 0
  /\ chunks = <<>>
  /\ nextChunk = 0
  /\ chunkDone = <<>>
  /\ worker = <<>>
  /\ task = <<>>
  /\ outFiles = <<>>

\* one task over one-pixel rasters of every value
InitPixel ==
  /\ scenarios = <<A>>
  /\ periods = <<A>>
  /\ cpus = 1
  /\ species_list = <<1, 2>>
  /\ \E files \in SeqsUpTo(PixelFiles, MaxFiles) : inputFS = OneDir(files)
  /\ refFile \in PixelRefs
  /\ locked = {}
  /\ InitDriver

\* one task over rasters of every shape
InitShape ==
  /\ scenarios = <<A>>
  /\ periods = <<A>>
  /\ cpus = 1
  /\ species_list = <<1, 2>>
  /\ \E files \in SeqsUpTo(ShapeFiles, MaxShapeFiles) : inputFS = OneDir(files)
  /\ \E sh \in Shapes : refFile = ShapeRef(sh)
  /\ locked = {}
  /\ InitDriver

\* the list of the first m names of a cyclic enumeration of names
Cycle(names, m) == [i \in 1..m |-> names[((i - 1) % Len(names)) + 1]]

\* a batch run by one process: up to MaxScenarios x MaxPeriods tasks over
\* one-pixel rasters, under every file system of BatchEnvs
InitSerial ==
  /\ \E m \in 0..MaxScenarios : scenarios = Cycle(<<A, <<"a", "_">>>>, m)
  /\ \E m \in 0..MaxPeriods : periods = Cycle(<<A, <<"_", "a">>>>, m)
  /\ cpus = 1
  /\ \E e \in BatchEnvs :
       /\ species_list = e.sl
       /\ inputFS = e.fs
       /\ refFile = e.rf
       /\ locked = e.lk
  /\ InitDriver

\* a batch run by several processes: every list of up to MaxScenarios
\* scenario names and at most one period name, under every file system
InitParallel ==
  /\ scenarios \in SeqsUpTo(ScenarioNames, MaxScenarios)
  /\ periods \in SeqsUpTo(PeriodNames, 1)
  /\ cpus \in 2..MaxCpus
  /\ \E e \in BatchEnvs :
       /\ species_list = e.sl
       /\ inputFS = e.fs
       /\ refFile = e.rf
       /\ locked = e.lk
  /\ InitDriver

Init == InitPixel \/ InitShape \/ InitSerial \/ InitParallel

Spec == Init /\ [][Next]_vars

\* ------------------------------------------------- reading the state
Tasks == DOMAIN task

PairOf(t) == args_list[t]

PathOf(t) == OutputPath(args_list[t][1], args_list[t][2])

\* the task has computed average_raster_rounded
HasOutput(t) == task[t].pc \in {"writing", "written"}

\* every input raster of the task has the reference's grid shape
Aligned(t) ==
  \A i \in 1..Len(task[t].tiff_files) :
    task[t].tiff_files[i].shape = task[t].ref_raster.shape

Pixels(t) == 1..Size(task[t].ref_raster.shape)

\* the output value the task computed for pixel p
Out(t, p) == task[t].average_raster_rounded.a[p]

\* the reference marks pixel p nodata: its value is the numeric sentinel, or
\* it is NaN under a NaN sentinel
RefNodataAt(t, p) ==
  LET v == task[t].ref_raster.a[p]
      nd == task[t].ref_nodata
  IN  \/ nd[1] = "num" /\ v = nd
      \/ nd[1] = "nan" /\ v[1] = "nan"

\* input i's pixel that lies on pixel p of the reference grid
InputAt(t, i, p) ==
  BIdx(task[t].tiff_files[i].shape, task[t].ref_raster.shape, p)

ValidAt(t, i, p) == ~task[t].tiff_files[i].mask[InputAt(t, i, p)]

ValueAt(t, i, p) == task[t].tiff_files[i].data[InputAt(t, i, p)]

ValidInputs(t, p) == {i \in 1..Len(task[t].tiff_files) : ValidAt(t, i, p)}

RECURSIVE SumOver(_, _, _)
\* the exact sum of the values at p of the inputs in I
SumOver(t, p, I) ==
  IF I = {} THEN 0
  ELSE LET i == CHOOSE j \in I : TRUE
       IN  ValueAt(t, i, p) + SumOver(t, p, I \ {i})

\* m is n/d rounded to the nearest integer, ties to the even one
IsNearestEven(m, n, d) ==
  LET twice == Abs(2 * (n - m * d))
  IN  twice < d \/ (twice = d /\ m % 2 = 0)

\* 2^bits: float32 holds every integer up to 2^24
Exact(bits) == 2 ^ bits

\* with n inputs, every valid value v at p has n * |v| < 2^b
SmallAt(t, p, b) ==
  \A i \in ValidInputs(t, p) :
    Len(task[t].tiff_files) * Abs(ValueAt(t, i, p)) < Exact(b)

\* ---------------------------------------------------------------- C1
\* C1 as stated: at every reference-valid pixel valid in k > 0 inputs, the
\* output is round_half_to_even(S / k), S the exact sum of the k valid values.
C1_Original ==
  \A t \in Tasks :
    HasOutput(t) /\ Aligned(t) =>
      \A p \in Pixels(t) :
        LET I == ValidInputs(t, p)
        IN  ~RefNodataAt(t, p) /\ I # {} =>
              /\ Out(t, p)[1] = "num"
              /\ IsNearestEven(Out(t, p)[2], SumOver(t, p, I),
                               Cardinality(I))

\* C1 amended: the same, for pixels whose valid values v satisfy
\* n * |v| < 2^22 (n the number of inputs): there the float32 sum is exact and
\* the float32 quotient rounds as the exact one; masked raw values never count.
C1_Average ==
  \A t \in Tasks :
    HasOutput(t) /\ Aligned(t) =>
      \A p \in Pixels(t) :
        LET I == ValidInputs(t, p)
        IN  ~RefNodataAt(t, p) /\ I # {} /\ SmallAt(t, p, F32Bits - 2) =>
              /\ Out(t, p)[1] = "num"
              /\ IsNearestEven(Out(t, p)[2], SumOver(t, p, I),
                               Cardinality(I))

\* a written pixel averaged over 2 of 3 inputs, the third masked over a
\* non-zero raw value, the average 3/2 a tie
C1_Witness ==
  \E t \in Tasks :
    /\ task[t].pc = "written" /\ Aligned(t)
    /\ \E p \in Pixels(t) :
         /\ ~RefNodataAt(t, p)
         /\ Len(task[t].tiff_files) = 3
         /\ Cardinality(ValidInputs(t, p)) = 2
         /\ SumOver(t, p, ValidInputs(t, p)) = 3
         /\ \E i \in 1..3 : ~ValidAt(t, i, p) /\ ValueAt(t, i, p) # 0
         /\ Out(t, p) = Num(2)

\* ---------------------------------------------------------------- C2
\* C2 as stated: wherever the reference is nodata, under a numeric or a NaN
\* sentinel, the output is NaN whatever the inputs hold.
C2_ReferenceWins ==
  \A t \in Tasks :
    HasOutput(t) =>
      \A p \in Pixels(t) : RefNodataAt(t, p) => Out(t, p) = NaN

\* ---------------------------------------------------------------- C7
\* C7: a reference-valid pixel masked in every one of the n >= 1 inputs is
\* written as 0, not NaN.
C7_ZeroSamples ==
  \A t \in Tasks :
    HasOutput(t) =>
      \A p \in Pixels(t) :
        /\ ~RefNodataAt(t, p)
        /\ Len(task[t].tiff_files) >= 1
        /\ ValidInputs(t, p) = {}
        => Out(t, p) = Num(0)

\* a written reference-valid pixel masked in two inputs over non-zero raw values
C7_Witness ==
  \E t \in Tasks :
    /\ task[t].pc = "written"
    /\ PathOf(t) \in DOMAIN outFiles
    /\ outFiles[PathOf(t)] = task[t].average_raster_rounded
    /\ \E p \in Pixels(t) :
         /\ ~RefNodataAt(t, p)
         /\ Len(task[t].tiff_files) = 2
         /\ \A i \in 1..2 : ~ValidAt(t, i, p) /\ ValueAt(t, i, p) # 0
         /\ Out(t, p) = Num(0)

\* ---------------------------------------------------------------- C4
\* C4 as stated: no output is computed or written by a task one of whose
\* input rasters has a grid shape other than the reference's.
C4_ShapeChecked ==
  \A t \in Tasks : HasOutput(t) => Aligned(t)

\* ---------------------------------------------------------------- C8
RECURSIVE FoldFrom(_, _, _)
\* the loop of lines 32-37 over files, from accumulators acc
FoldFrom(acc, files, i) ==
  IF i > Len(files) THEN acc
  ELSE FoldFrom([s |-> IAdd(acc.s, Filled(files[i])),
                 c |-> IAdd(acc.c, NotMask(files[i]))], files, i + 1)

\* what lines 27-47 compute from a file list: the output grid, or no grid
\* when a file cannot be read or added
OutputOf(ref_raster, ref_nodata, files) ==
  IF \E i \in 1..Len(files) :
       OpenFails(files[i])
         \/ ~Broadcastable(files[i].shape, ref_raster.shape)
  THEN EmptyGrid
  ELSE LET z == ZerosLike(ref_raster)
           acc == FoldFrom([s |-> z, c |-> z], files, 1)
       IN  Average(acc.s, acc.c, ref_raster, ref_nodata)

Perms(n) == {f \in [1..n -> 1..n] : \A i, j \in 1..n : f[i] = f[j] => i = j}

Permuted(files, f) == [i \in 1..Len(files) |-> files[f[i]]]

\* the task's fold has ended: with a grid, or raising on an input
Folded(t) ==
  \/ HasOutput(t)
  \/ task[t].pc = "failed" /\ task[t].err \in {"input", "shape", "output"}

GridOf(t) == IF task[t].pc = "failed" /\ task[t].err # "output"
             THEN EmptyGrid ELSE task[t].average_raster_rounded

\* every unmasked value v of the task's n inputs has n * |v| <= 2^24
ExactSums(t) ==
  \A i \in 1..Len(task[t].tiff_files) :
    \A k \in 1..Size(task[t].tiff_files[i].shape) :
      ~task[t].tiff_files[i].mask[k] =>
        Len(task[t].tiff_files) * Abs(task[t].tiff_files[i].data[k])
          <= Exact(F32Bits)

\* C8 as stated: every permutation of the resolved file list gives the
\* output grid the task computed.
C8_Original ==
  \A t \in Tasks :
    Folded(t) =>
      \A f \in Perms(Len(task[t].tiff_files)) :
        OutputOf(task[t].ref_raster, task[t].ref_nodata,
                 Permuted(task[t].tiff_files, f)) = GridOf(t)

\* C8 amended: the same, for file lists whose unmasked values v satisfy
\* n * |v| <= 2^24, so that every partial float32 sum is exact.
C8_OrderIndependent ==
  \A t \in Tasks :
    Folded(t) /\ ExactSums(t) =>
      \A f \in Perms(Len(task[t].tiff_files)) :
        OutputOf(task[t].ref_raster, task[t].ref_nodata,
                 Permuted(task[t].tiff_files, f)) = GridOf(t)

\* a written task over three pairwise different inputs, one of them masked
C8_Witness ==
  \E t \in Tasks :
    /\ task[t].pc = "written" /\ ExactSums(t)
    /\ Len(task[t].tiff_files) = 3
    /\ \A i, j \in 1..3 : i # j => task[t].tiff_files[i] # task[t].tiff_files[j]
    /\ \E i \in 1..3 : task[t].tiff_files[i].mask[1]
    /\ Out(t, 1)[1] = "num" /\ Out(t, 1)[2] > 0

\* ---------------------------------------------------- batch properties
Ended == driverPc \in {"done", "raised", "crashed"}

\* the files the task's directory holds
FilesOf(t) == GlobAll(PairOf(t)[1], PairOf(t)[2], species_list)

\* nothing of the task's own can fail: the reference and its inputs are
\* readable and of one shape, its output path is writable
Sound(t) ==
  /\ refFile.readable
  /\ \A i \in 1..Len(FilesOf(t)) :
       FilesOf(t)[i].readable /\ FilesOf(t)[i].shape = refFile.shape
  /\ PathOf(t) \notin locked

\* the tasks that precede t in its batch
Before(t) ==
  {u \in Tasks : \E c \in 1..Len(chunks) : \E i, j \in 1..Len(chunks[c]) :
                   i < j /\ chunks[c][i] = u /\ chunks[c][j] = t}

\* ---------------------------------------------------------------- C3
\* C3 as stated: when pool.map has ended, every task whose own inputs and
\* output are sound has run to completion, and a failed task makes the
\* driver end with the error.
C3_Isolation ==
  driverPc \in {"done", "raised"} =>
    /\ \A t \in Tasks : Sound(t) => task[t].pc \in {"written", "skipped"}
    /\ (\E t \in Tasks : task[t].pc = "failed") => driverPc = "raised"

\* ---------------------------------------------------------------- C5
\* C5 as stated: with an unreadable reference raster no task performs any step.
C5_Original ==
  ~refFile.readable => \A t \in Tasks : task[t].pc = "pending"

\* C5 amended: with an unreadable reference raster no task reads an input
\* raster or creates an output file; a task that runs is skipped when its
\* directory holds no file and otherwise fails at the reference read.
C5_NoWorkWithoutReference ==
  ~refFile.readable =>
    /\ outFiles = <<>>
    /\ \A t \in Tasks :
         /\ task[t].n = 0
         /\ task[t].pc \in {"pending", "notrun", "read_ref", "skipped", "failed"}
         /\ task[t].pc = "skipped" => FilesOf(t) = <<>>
         /\ task[t].pc = "failed" => task[t].err = "ref" /\ FilesOf(t) # <<>>

\* a batch with an unreadable reference that ended with one task skipped and
\* another failed
C5_Witness ==
  /\ ~refFile.readable
  /\ driverPc = "raised"
  /\ \E t, u \in Tasks : task[t].pc = "skipped" /\ task[u].pc = "failed"

\* ---------------------------------------------------------------- C6
\* C6: a task whose file resolution is empty returns normally as skipped,
\* has not read the reference, and its output path holds no file unless
\* another task of the same path opened it; a task is left unrun only behind
\* a failed task of its batch, the driver ends with an error only if a task
\* failed, and when the driver ends every task has been dealt with.
C6_SkipWithoutError ==
  /\ \A t \in Tasks :
       task[t].pc \notin {"pending", "notrun"} /\ FilesOf(t) = <<>> =>
         /\ task[t].pc = "skipped"
         /\ task[t].ref_raster = EmptyGrid
         /\ PathOf(t) \in DOMAIN outFiles =>
              \E u \in Tasks \ {t} : PathOf(u) = PathOf(t) /\ HasOutput(u)
  /\ \A t \in Tasks :
       task[t].pc = "notrun" => \E u \in Before(t) : task[u].pc = "failed"
  /\ driverPc = "raised" => \E t \in Tasks : task[t].pc = "failed"
  /\ driverPc \in {"done", "raised"} =>
       \A t \in Tasks :
         task[t].pc \in {"skipped", "written", "failed", "notrun"}

\* a batch that ended without error in which a skipped task is followed, in
\* the same batch of the pool, by a task that wrote its output
C6_Witness ==
  /\ driverPc = "done"
  /\ \E t, u \in Tasks :
       /\ t \in Before(u)
       /\ task[t].pc = "skipped" /\ FilesOf(t) = <<>>
       /\ task[u].pc = "written" /\ PathOf(u) \in DOMAIN outFiles

\* ---------------------------------------------------------------- C9
\* no file of the file system can make a task fail
FaultFree ==
  /\ refFile.readable
  /\ locked = {}
  /\ \A d \in Dirs : \A i \in 1..Len(inputFS[d]) :
       inputFS[d][i].readable /\ inputFS[d][i].shape = refFile.shape

\* C9 as stated: for scenario and period lists of any length the driver
\* builds one task per pair, uses a pool of min(cpu_count, tasks) processes
\* and ends normally with every task skipped or written.
C9_AllTasksRun ==
  FaultFree /\ Ended =>
    /\ driverPc = "done"
    /\ Len(args_list) = Len(scenarios) * Len(periods)
    /\ num_processes = Min(cpus, Len(args_list))
    /\ \A t \in Tasks : task[t].pc \in {"skipped", "written"}

\* ---------------------------------------------------------------- C10
\* C10 as stated: no two tasks of a batch have the same output path open for
\* writing at once.
C10_OneWriter ==
  \A t, u \in Tasks :
    t # u /\ task[t].pc = "writing" /\ task[u].pc = "writing" =>
      PathOf(t) # PathOf(u)

====
